---- MODULE Spec2Model ----
(***************************************************************************)
(* san-resolver: the concurrent resolution pipeline of san-resolver.go     *)
(* (producer, worker pool, output worker, main's shutdown barrier) and     *)
(* the per-request resolution function processDNSRequest with detectCDN    *)
(* and performReverseLookups.                                              *)
(*                                                                         *)
(* Spec        the pipeline; a worker's processDNSRequest is one step.     *)
(* FairSpec    the pipeline under the scheduler's fairness.                *)
(* SpecResolve processDNSRequest call by call: every network lookup is a   *)
(*             step whose answer is chosen by the environment.             *)
(* SpecSimple  the simple variant (unnamed/part_000), line by line: the    *)
(*             path of one line from the scanner to standard output.       *)
(* SpecTimed   processDNSRequest with its waits: the deadline of ctx, the  *)
(*             calls that may never be answered, the goroutines and the    *)
(*             results channel of performReverseLookups.                   *)
(* FairTimed   SpecTimed with the steps the program and its clocks take    *)
(*             by themselves; FairCollector with those of the collection   *)
(*             loop only.                                                  *)
(***************************************************************************)
EXTENDS Integers, Sequences, FiniteSets, TLC

\* ------------------------------------------------------------------ bounds

\* Most lines on standard input.
MaxInput == 2
\* Largest -workers value explored (0..MaxWorkers).
MaxWorkers == 2
\* Largest -buffer value explored (0..MaxBuffer); 0 is an unbuffered channel.
MaxBuffer == 2
\* Most addresses in one lookup's answer.
MaxAddrs == 2

\* ------------------------------------------------------- addresses as values

\* An IPv4 address is its four octets; NilIP is net.ParseIP's nil.
NilIP == <<>>

AddrExpected == <<1, 2, 3, 4>>
AddrAkamai == <<23, 32, 0, 1>>
AddrOverlap == <<54, 239, 130, 1>>
AddrPlain == <<203, 13, 128, 216>>

\* The addresses the modelled resolvers can answer with.
KnownAddrs == {AddrExpected, AddrAkamai, AddrOverlap, AddrPlain}

\* net.IP.String of an IPv4 address: dotted decimal.
IPString(ip) ==
  ToString(ip[1]) \o "." \o ToString(ip[2]) \o "." \o ToString(ip[3]) \o "." \o ToString(ip[4])

\* net.ParseIP on the literals of the model: the canonical dotted decimal of an
\* address parses to it; every other text ("01.2.3.4", "fe80::1%eth0") is nil.
ParseIP(s) ==
  IF \E a \in KnownAddrs : IPString(a) = s
  THEN CHOOSE a \in KnownAddrs : IPString(a) = s
  ELSE NilIP

\* ------------------------------------------------------------ CDN range table

Providers == {"cloudflare", "cloudfront", "aws_global_accelerator", "fastly", "akamai"}

Cidr(a, b, c, d, n) == [net |-> <<a, b, c, d>>, bits |-> n]

\* The table of san-resolver.go, each prefix as net.ParseCIDR parses it.
cdnProviders ==
  [p \in Providers |->
    CASE p = "cloudflare" ->
      { Cidr(173,245,48,0,20), Cidr(103,21,244,0,22), Cidr(103,22,200,0,22),
        Cidr(103,31,4,0,22), Cidr(141,101,64,0,18), Cidr(108,162,192,0,18),
        Cidr(190,93,240,0,20), Cidr(188,114,96,0,20), Cidr(197,234,240,0,22),
        Cidr(198,41,128,0,17), Cidr(162,158,0,0,15), Cidr(104,16,0,0,13),
        Cidr(104,24,0,0,14), Cidr(172,64,0,0,13), Cidr(131,0,72,0,22) }
    [] p = "cloudfront" ->
      { Cidr(52,84,0,0,15), Cidr(54,230,0,0,16), Cidr(54,239,128,0,18),
        Cidr(99,84,0,0,16), Cidr(205,251,192,0,19), Cidr(54,239,192,0,19),
        Cidr(70,132,0,0,18), Cidr(13,32,0,0,15), Cidr(13,35,0,0,16),
        Cidr(204,246,164,0,22), Cidr(204,246,168,0,22), Cidr(71,152,0,0,17) }
    [] p = "aws_global_accelerator" ->
      { Cidr(75,2,0,0,16), Cidr(99,77,0,0,16), Cidr(99,83,0,0,16),
        Cidr(108,136,0,0,13), Cidr(130,176,0,0,12), Cidr(150,222,0,0,16),
        Cidr(15,177,0,0,18), Cidr(52,93,0,0,16), Cidr(54,239,0,0,16) }
    [] p = "fastly" ->
      { Cidr(23,235,32,0,20), Cidr(43,249,72,0,22), Cidr(103,244,50,0,24),
        Cidr(103,245,222,0,23), Cidr(103,245,224,0,24), Cidr(104,156,80,0,20),
        Cidr(140,248,64,0,18), Cidr(140,248,128,0,17), Cidr(146,75,0,0,16),
        Cidr(151,101,0,0,16), Cidr(157,52,64,0,18), Cidr(167,82,0,0,17),
        Cidr(167,82,128,0,20), Cidr(167,82,160,0,20), Cidr(167,82,224,0,20),
        Cidr(172,111,64,0,18), Cidr(185,31,16,0,22), Cidr(199,27,72,0,21),
        Cidr(199,232,0,0,16) }
    [] OTHER ->
      { Cidr(23,0,0,0,12), Cidr(2,16,0,0,13), Cidr(23,192,0,0,11), Cidr(23,32,0,0,11),
        Cidr(23,64,0,0,14), Cidr(23,72,0,0,13), Cidr(96,16,0,0,15), Cidr(96,6,0,0,15),
        Cidr(104,64,0,0,10), Cidr(184,24,0,0,13), Cidr(184,50,0,0,15), Cidr(184,84,0,0,14),
        Cidr(172,224,0,0,12), Cidr(172,240,0,0,13) } ]

Pow2(n) == IF n <= 0 THEN 1 ELSE 2 ^ n

\* How many of octet i's bits a prefix of n bits covers.
OctetBits(n, i) ==
  LET k == n - 8 * (i - 1) IN IF k < 0 THEN 0 ELSE IF k > 8 THEN 8 ELSE k

\* net.IPNet.Contains: the address and the network agree on the prefix bits.
Contains(cidr, ip) ==
  \A i \in 1..4 :
    LET drop == Pow2(8 - OctetBits(cidr.bits, i))
    IN  (ip[i] \div drop) = (cidr.net[i] \div drop)

\* The keys in the order of the map literal.
LiteralOrder == <<"cloudflare", "cloudfront", "aws_global_accelerator", "fastly", "akamai">>

\* The orders in which `range cdnProviders` can visit the map. Go leaves the
\* order unspecified; its runtime starts each iteration at a random offset into
\* the one bucket that holds the five keys, so the orders a build produces are
\* the rotations of the literal's order.
MapOrders ==
  { [i \in 1..Len(LiteralOrder) |-> LiteralOrder[((i + k - 1) % Len(LiteralOrder)) + 1]] :
      k \in 0..(Len(LiteralOrder) - 1) }

\* The inner loops of detectCDN for one parsed address: the first provider, in
\* the order the map is visited, one of whose prefixes contains it; "" if none.
RECURSIVE FirstProvider(_, _, _)
FirstProvider(order, i, ip) ==
  IF i > Len(order) THEN ""
  ELSE IF \E c \in cdnProviders[order[i]] : Contains(c, ip) THEN order[i]
  ELSE FirstProvider(order, i + 1, ip)

\* detectCDN when it gives up at the first address that is in no prefix.
detectCDNFirstOnly(ips, order) ==
  IF ips = <<>> THEN ""
  ELSE LET parsedIP == ParseIP(Head(ips))
       IN  IF parsedIP = NilIP THEN "" ELSE FirstProvider(order, 1, parsedIP)

\* detectCDN(ips) when `range cdnProviders` visits the map in `order`. The map
\* is ranged over anew for every address, but only the order used for the first
\* address that matches decides the result, so one order per call gives every
\* result the code can return.
RECURSIVE detectCDN(_, _)
detectCDN(ips, order) ==
  IF ips = <<>> THEN ""
  ELSE LET parsedIP == ParseIP(Head(ips))
       IN  IF parsedIP = NilIP THEN detectCDN(Tail(ips), order)
           ELSE LET p == FirstProvider(order, 1, parsedIP)
                IN  IF p # "" THEN p ELSE detectCDN(Tail(ips), order)

\* ------------------------------------------------------------- text helpers

\* strings.TrimSuffix
TrimSuffix(s, suffix) ==
  IF Len(s) >= Len(suffix) /\ SubSeq(s, Len(s) - Len(suffix) + 1, Len(s)) = suffix
  THEN SubSeq(s, 1, Len(s) - Len(suffix))
  ELSE s

LowerLetters == "abcdefghijklmnopqrstuvwxyz"
UpperLetters == "ABCDEFGHIJKLMNOPQRSTUVWXYZ"

UpperChar(c) ==
  IF \E i \in 1..26 : SubSeq(LowerLetters, i, i) = c
  THEN LET i == CHOOSE k \in 1..26 : SubSeq(LowerLetters, k, k) = c
       IN  SubSeq(UpperLetters, i, i)
  ELSE c

\* strings.ToUpper
RECURSIVE ToUpper(_)
ToUpper(s) ==
  IF Len(s) = 0 THEN ""
  ELSE UpperChar(SubSeq(s, 1, 1)) \o ToUpper(SubSeq(s, 2, Len(s)))

\* strings.Join
RECURSIVE Join(_, _)
Join(elems, sep) ==
  IF elems = <<>> THEN ""
  ELSE IF Len(elems) = 1 THEN elems[1]
  ELSE elems[1] \o sep \o Join(Tail(elems), sep)

\* The line the three print sites write for a result (fmt.Printf without the "\n").
FormatLine(result) ==
  IF Len(result.resolvedIPs) > 0
  THEN result.line \o " " \o result.status \o " " \o Join(result.resolvedIPs, ",")
  ELSE result.line \o " " \o result.status

\* --------------------------------------------------------- strategy chain

\* Strategies when a forced resolver is put first instead of alone.
StrategiesForcedFirst(flags) ==
  (IF flags.forceGoogle THEN <<"google">>
   ELSE IF flags.forceCF THEN <<"cloudflare">> ELSE <<>>)
    \o (IF ~flags.noSystemDNS THEN <<"system", "go-builtin">> ELSE <<>>)
    \o <<"google", "cloudflare", "quad9", "opendns">>

\* The strategies processDNSRequest builds, each named by the resolver its
\* closure queries.
Strategies(flags) ==
  IF flags.forceGoogle THEN <<"google">>
  ELSE IF flags.forceCF THEN <<"cloudflare">>
  ELSE (IF ~flags.noSystemDNS THEN <<"system", "go-builtin">> ELSE <<>>)
       \o <<"google", "cloudflare", "quad9", "opendns">>

strategyNames ==
  <<"system", "go-builtin", "google", "cloudflare", "quad9", "opendns", "fallback">>

\* var ips []net.IPAddr; var err error; var successfulStrategy int = -1
\* i counts the loop's iterations. Not variables of the code: calls, the lookups
\* made so far in order, and allFailed, whether each of them yielded no address.
\* calls, allFailed and firstOk are the history of the call: the lookups made
\* so far, whether all of them failed, and the answer of the first strategy
\* that returned addresses without an error.
InitLookup ==
  [i |-> 0, ips |-> <<>>, err |-> FALSE, successfulStrategy |-> -1,
   calls |-> <<>>, allFailed |-> TRUE, firstOk |-> <<>>]

\* One iteration of the strategy loop: resp is what strategy(ctx, domain) returned.
StrategyStep(st, label, resp) ==
  [st EXCEPT !.i = @ + 1,
             !.ips = resp.ips,
             !.err = resp.err,
             !.successfulStrategy = IF ~resp.err /\ Len(resp.ips) > 0 THEN st.i ELSE @,
             !.calls = Append(@, label),
             !.allFailed = @ /\ (resp.err \/ Len(resp.ips) = 0),
             !.firstOk = IF @ = <<>> /\ ~resp.err THEN resp.ips ELSE @]

\* The loop without its break: every strategy is tried.
LoopDoneNoBreak(st, strategies) == st.i >= Len(strategies)

\* The loop is left by its break or when the strategies are exhausted.
LoopDone(st, strategies) ==
  st.successfulStrategy >= 0 \/ st.i >= Len(strategies)

\* `if err != nil` after the loop: whether net.LookupHost is tried.
NeedsFallback(st) == st.err

\* The hosts of net.LookupHost that net.ParseIP accepts, in order.
RECURSIVE ParsedHosts(_)
ParsedHosts(hosts) ==
  IF hosts = <<>> THEN <<>>
  ELSE LET ip == ParseIP(Head(hosts))
       IN  (IF ip # NilIP THEN <<ip>> ELSE <<>>) \o ParsedHosts(Tail(hosts))

\* The fallback block: fb is what net.LookupHost returned.
FallbackStep(st, nStrategies, fb) ==
  LET ok == ~fb.err /\ Len(fb.hosts) > 0
  IN  [st EXCEPT !.err = fb.err,
                 !.ips = IF ok THEN @ \o ParsedHosts(fb.hosts) ELSE @,
                 !.successfulStrategy = IF ok THEN nStrategies ELSE @,
                 !.calls = Append(@, "fallback"),
                 !.allFailed = @ /\ (fb.err \/ Len(ParsedHosts(fb.hosts)) = 0)]

\* DNSFailed without the test for an empty answer.
DNSFailedErrOnly(st) == st.err

\* `if err != nil || len(ips) == 0`
DNSFailed(st) == st.err \/ Len(st.ips) = 0

resolvedIPStrings(ips) == [i \in 1..Len(ips) |-> IPString(ips[i])]

\* foundMatch when only the first resolved address is compared.
foundMatchFirstOnly(ips, expectedIP) ==
  Len(ips) > 0 /\ IPString(ips[1]) = expectedIP

\* The loop of lines 348-354: some resolved address, as text, is the expected one.
foundMatch(ips, expectedIP) ==
  \E i \in 1..Len(ips) : IPString(ips[i]) = expectedIP

\* The status of a mismatch: the CDN tag, then the verbose strategy tag.
MismatchStatus(cdnProvider, successfulStrategy, verbose) ==
  LET status == IF cdnProvider # "" THEN "CDN_MISMATCH_" \o ToUpper(cdnProvider)
                ELSE "IP_MISMATCH"
  IN  IF verbose /\ successfulStrategy >= 0 /\ successfulStrategy < Len(strategyNames)
      THEN status \o "_VIA_" \o ToUpper(strategyNames[successfulStrategy + 1])
      ELSE status

\* --------------------------------------------------------- reverse lookups

\* The goroutine of performReverseLookups for one address: answer is what
\* resolver.LookupAddr returned.
ReverseTask(ipAddr, answer) ==
  [ip |-> ipAddr,
   hostname |-> IF answer.err \/ Len(answer.names) = 0 THEN ""
                ELSE TrimSuffix(answer.names[1], ".")]

\* The collection loop: reverseMap after the results in `arrivals` were
\* received in that order (results not received before ctx.Done are absent).
RECURSIVE reverseMap(_)
reverseMap(arrivals) ==
  IF arrivals = <<>> THEN <<>>
  ELSE LET last == arrivals[Len(arrivals)]
           rest == reverseMap(SubSeq(arrivals, 1, Len(arrivals) - 1))
       IN  \* a map as a sequence of entries with distinct keys; a later write wins
           SelectSeq(rest, LAMBDA e : e.ip # last.ip) \o <<last>>

MapGet(m, key) ==
  IF \E i \in 1..Len(m) : m[i].ip = key
  THEN m[CHOOSE i \in 1..Len(m) : m[i].ip = key].hostname
  ELSE ""

\* A variant without the test `hostname != ""`: every address with an entry
\* in reverseMap is annotated, a failed lookup's with the empty hostname.
performReverseLookupsAnyEntry(ips, arrivals) ==
  LET m == reverseMap(arrivals)
  IN  [i \in 1..Len(ips) |->
        IF \E k \in 1..Len(m) : m[k].ip = ips[i]
        THEN ips[i] \o "[" \o MapGet(m, ips[i]) \o "]" ELSE ips[i]]

\* performReverseLookups: "IP[hostname]" or "IP", in the order of ips.
performReverseLookups(ips, arrivals) ==
  LET m == reverseMap(arrivals)
  IN  [i \in 1..Len(ips) |->
        LET hostname == MapGet(m, ips[i])
        IN  IF hostname # "" THEN ips[i] \o "[" \o hostname \o "]" ELSE ips[i]]

\* ------------------------------------------------- the results of a request

FailureResult(request) ==
  [line |-> request.line, shouldPrint |-> TRUE, status |-> "DNS_FAILURE",
   resolvedIPs |-> <<>>, id |-> request.id]

MatchResult(request, ips) ==
  [line |-> request.line, shouldPrint |-> FALSE, status |-> "MATCH",
   resolvedIPs |-> resolvedIPStrings(ips), id |-> request.id]

MismatchResult(request, status, formattedIPs) ==
  [line |-> request.line, shouldPrint |-> TRUE, status |-> status,
   resolvedIPs |-> formattedIPs, id |-> request.id]

\* Lines 334-389 of processDNSRequest: the result once the lookups have been
\* made, with the map order detectCDN met and the reverse results collected.
Outcome(request, flags, st, order, arrivals) ==
  IF DNSFailed(st) THEN FailureResult(request)
  ELSE IF foundMatch(st.ips, request.expectedIP) THEN MatchResult(request, st.ips)
  ELSE LET strs == resolvedIPStrings(st.ips)
           cdnProvider == detectCDN(strs, order)
           status == MismatchStatus(cdnProvider, st.successfulStrategy, flags.verbose)
       IN  MismatchResult(request, status, performReverseLookups(strs, arrivals))

\* ------------------------------------------------------------ input records

LineOK == "1.2.3.4:443 [example.com]"
\* The pattern's \d+ accepts an octet written with a leading zero.
LineOddIP == "01.2.3.4:443 [example.com]"
LineBad == "garbage text"
LineBlank == "   "

RECURSIVE TrimLeft(_)
TrimLeft(s) ==
  IF Len(s) > 0 /\ SubSeq(s, 1, 1) = " " THEN TrimLeft(SubSeq(s, 2, Len(s))) ELSE s

RECURSIVE TrimRight(_)
TrimRight(s) ==
  IF Len(s) > 0 /\ SubSeq(s, Len(s), Len(s)) = " "
  THEN TrimRight(SubSeq(s, 1, Len(s) - 1)) ELSE s

\* strings.TrimSpace on the lines of the model (their only white space is " ").
TrimSpace(s) == TrimRight(TrimLeft(s))

\* re.FindStringSubmatch on the lines of the model: the match and its three
\* groups, or no match.
FindStringSubmatch(line) ==
  CASE line = LineOK -> <<"1.2.3.4:443 [example.com]", "1.2.3.4", "443", "example.com">>
    [] line = LineOddIP -> <<"01.2.3.4:443 [example.com]", "01.2.3.4", "443", "example.com">>
    [] OTHER -> <<>>

\* The DNSRequest the producer builds from a matching line; id is the record's
\* position in the input (not a field of the code: it tells equal lines apart).
RequestOf(line, id) ==
  LET matches == FindStringSubmatch(line)
  IN  [line |-> line, expectedIP |-> matches[2], domain |-> matches[4], id |-> id]

MalformedResult(line, id) ==
  [line |-> line, shouldPrint |-> TRUE, status |-> "MALFORMED", resolvedIPs |-> <<>>,
   id |-> id]

NoRequest == [line |-> "", expectedIP |-> "", domain |-> "", id |-> 0]
NoResult == [line |-> "", shouldPrint |-> FALSE, status |-> "", resolvedIPs |-> <<>>, id |-> 0]

\* ------------------------------------------------------ what resolvers answer

RECURSIVE SeqsUpTo(_, _)
SeqsUpTo(S, n) ==
  IF n = 0 THEN {<<>>}
  ELSE LET shorter == SeqsUpTo(S, n - 1)
       IN  shorter \cup {Append(q, x) : q \in shorter, x \in S}

AddrLists == SeqsUpTo(KnownAddrs, MaxAddrs) \ {<<>>}

LookupError == [err |-> TRUE, ips |-> <<>>]

\* What LookupIPAddr can return: an error, no error and no address, or addresses.
Responses ==
  {LookupError, [err |-> FALSE, ips |-> <<>>]} \cup {[err |-> FALSE, ips |-> l] : l \in AddrLists}

\* A host text net.ParseIP rejects (an address with a zone).
ZonedHost == "fe80::1%eth0"

\* What net.LookupHost can return.
FbResponses ==
  {[err |-> TRUE, hosts |-> <<>>]}
    \cup {[err |-> FALSE, hosts |-> h] :
            h \in SeqsUpTo({IPString(a) : a \in KnownAddrs} \cup {ZonedHost}, MaxAddrs)}

\* The PTR name of an address, as LookupAddr returns it: with the root label's
\* dot for some resolvers, without for others.
RawHost(ipAddr) ==
  IF ipAddr = IPString(AddrPlain) THEN "adfs.example.net"
  ELSE "host-" \o ipAddr \o ".example.net."

\* The reverse results the collection loop receives when the tasks in
\* `answered` find a name and deliver in the order of ips, and the other tasks
\* fail or run past the deadline.
RECURSIVE ArrivalsOf(_, _, _)
ArrivalsOf(strs, i, answered) ==
  IF i > Len(strs) THEN <<>>
  ELSE (IF i \in answered
        THEN <<ReverseTask(strs[i], [err |-> FALSE, names |-> <<RawHost(strs[i])>>])>>
        ELSE <<>>) \o ArrivalsOf(strs, i + 1, answered)

\* The orders in which the members of a set can come.
RECURSIVE Perms(_)
Perms(S) ==
  IF S = {} THEN {<<>>}
  ELSE UNION {{<<x>> \o p : p \in Perms(S \ {x})} : x \in S}

\* What the goroutine for strs[i] sends: the name found, or "" when
\* LookupAddr failed or ran out of time.
TaskSends(strs, i, found) ==
  ReverseTask(strs[i], IF found THEN [err |-> FALSE, names |-> <<RawHost(strs[i])>>]
                       ELSE [err |-> TRUE, names |-> <<>>])

\* What the collection loop can receive: from each goroutine in `received` its
\* result, a name for those in `named`, in any order; the results of the
\* others are not received before ctx is done.
Arrivals(strs) ==
  UNION { { [k \in 1..Len(order) |-> TaskSends(strs, order[k], order[k] \in named)] :
              order \in Perms(received), named \in SUBSET received } :
          received \in SUBSET (1..Len(strs)) }

\* The strategy loop against a resolver world: ans[label] is what that
\* strategy answers.
RECURSIVE RunLoop(_, _, _)
RunLoop(st, strategies, ans) ==
  IF LoopDone(st, strategies) THEN st
  ELSE LET label == strategies[st.i + 1]
       IN  RunLoop(StrategyStep(st, label, ans[label]), strategies, ans)

\* The lookups of processDNSRequest against a resolver world.
Lookup(flags, world) ==
  LET strategies == Strategies(flags)
      st == RunLoop(InitLookup, strategies, world.ans)
  IN  IF NeedsFallback(st) THEN FallbackStep(st, Len(strategies), world.fb) ELSE st

\* The reverse results collected in a world: a name for the addresses in
\* world.named, nothing for the others.
WorldArrivals(strs, world) ==
  ArrivalsOf(strs, 1, {i \in 1..Len(strs) : strs[i] \in world.named})

\* processDNSRequest in one piece, as a worker or the producer calls it.
processDNSRequest(request, flags, world) ==
  LET st == Lookup(flags, world)
  IN  Outcome(request, flags, st, world.order,
              WorldArrivals(resolvedIPStrings(st.ips), world))

\* The address lists detectCDN is applied to on its own: literals of known
\* addresses and one that does not parse.
LiteralLists == SeqsUpTo({IPString(a) : a \in KnownAddrs} \cup {ZonedHost}, MaxAddrs)

\* ---------------------------------------------------------------- the state

VARIABLES
  cfg,        \* the flags: workers, bufferSize, forceGoogle, forceCF, noSystemDNS, verbose
  input,      \* the lines of standard input
  pos,        \* how many of them scanner.Scan has returned
  ppc,        \* the producer goroutine: where it is
  preq,       \* its request
  pres,       \* its result (MALFORMED, or of the inline processDNSRequest)
  inputChan,  \* the buffer of inputChan
  inClosed,   \* close(inputChan) has run
  outputChan, \* the buffer of outputChan
  outClosed,  \* close(outputChan) has run
  wpc,        \* each dnsWorker: where it is
  wreq,       \* its request
  wres,       \* its result
  spc,        \* outputWorker: where it is
  sres,       \* the result it received
  mpc,        \* main: where it is
  panicked,   \* a goroutine sent on the closed outputChan
  stdout,     \* the lines written, each with the record it is for and its writer
  outcomes,   \* per input record, the results made for it, each with its maker
  rpc,        \* processDNSRequest, call by call: where the call is
  rreq,       \* its request
  rst,        \* ips, err, successfulStrategy and the lookups made so far
  rstatus,    \* the status of a mismatch, once built
  rres,       \* the DNSResult returned
  cdnIn,      \* the argument of the latest detectCDN call
  cdnOut,     \* and what it returned
  revArrivals, \* the reverse results the latest performReverseLookups received, in order
  simple,     \* the simple variant: the line being handled and where it is
  tpc,        \* processDNSRequest with its waits: where the call is
  tctx,       \* ctx of the call is done (deadline passed or cancel() run)
  tlk,        \* ips, err, successfulStrategy of the call
  tstatus,    \* the status of a mismatch, once built
  tasks,      \* the goroutines of performReverseLookups: where each is, what it sends
  results,    \* the buffer of the results channel
  tgot,       \* the results the collection loop has received, in order
  titer,      \* the iterations of the collection loop completed
  tres        \* the DNSResult returned

pvars == <<input, pos, ppc, preq, pres, inputChan, inClosed, outputChan, outClosed,
           wpc, wreq, wres, spc, sres, mpc, panicked, stdout, outcomes>>
rvars == <<rpc, rreq, rst, rstatus, rres, cdnIn, cdnOut, revArrivals>>
tvars == <<tpc, tctx, tlk, tstatus, tasks, results, tgot, titer, tres>>
vars == <<cfg, pvars, rvars, simple, tvars>>

\* main exits at once when both -force-google and -force-cloudflare are given.
FlagSets ==
  { f \in [forceGoogle : BOOLEAN, forceCF : BOOLEAN, noSystemDNS : BOOLEAN, verbose : BOOLEAN] :
      ~(f.forceGoogle /\ f.forceCF) }

Config(workers, bufferSize, f) ==
  [workers |-> workers, bufferSize |-> bufferSize, forceGoogle |-> f.forceGoogle,
   forceCF |-> f.forceCF, noSystemDNS |-> f.noSystemDNS, verbose |-> f.verbose]

\* ------------------------------------------------------------ the pipeline

\* The lines standard input can hold.
RawLines == {LineOK, LineBad, LineBlank}

Inputs == SeqsUpTo(RawLines, MaxInput)

DefaultFlags ==
  [forceGoogle |-> FALSE, forceCF |-> FALSE, noSystemDNS |-> FALSE, verbose |-> FALSE]

\* A resolver world in which every strategy answers resp.
World(resp, fb, order, named) ==
  [ans |-> [l \in {"system", "go-builtin", "google", "cloudflare", "quad9", "opendns"} |-> resp],
   fb |-> fb, order |-> order, named |-> named]

\* The resolver worlds the pipeline runs in: the domain resolves to the
\* expected address among others, or into a CDN.
PipelineWorlds ==
  { World([err |-> FALSE, ips |-> <<AddrPlain, AddrExpected>>],
          [err |-> TRUE, hosts |-> <<>>], LiteralOrder, {}),
    World([err |-> FALSE, ips |-> <<AddrAkamai>>],
          [err |-> TRUE, hosts |-> <<>>], LiteralOrder, {IPString(AddrAkamai)}) }

\* The requests the producer builds from the well-formed lines of the model.
PipelineRequests == {RequestOf(LineOK, id) : id \in 1..MaxInput}

\* The flags of a configuration.
Flags(c) ==
  [forceGoogle |-> c.forceGoogle, forceCF |-> c.forceCF, noSystemDNS |-> c.noSystemDNS,
   verbose |-> c.verbose]

\* processDNSRequest, worked out once for every request, flag set and resolver
\* world of the pipeline.
Resolved ==
  { [request |-> r, flags |-> f, result |-> processDNSRequest(r, f, w)] :
      r \in PipelineRequests, f \in FlagSets, w \in PipelineWorlds }

\* What processDNSRequest(request, ...) can return under the flags.
Resolutions(request, flags) ==
  {e.result : e \in {x \in Resolved : x.request = request /\ x.flags = flags}}

Workers == 1..cfg.workers

\* Who made or wrote something (the workers are not told apart).
Producer == "producer"
Sink == "sink"
Worker(w) == "worker"

\* The state when main has made the channels and started the goroutines.
PInit(in) ==
  /\ input = in
  /\ pos = 0
  /\ ppc = "scan"
  /\ preq = NoRequest
  /\ pres = NoResult
  /\ inputChan = <<>>
  /\ inClosed = FALSE
  /\ outputChan = <<>>
  /\ outClosed = FALSE
  /\ wpc = [w \in Workers |-> "recv"]
  /\ wreq = [w \in Workers |-> NoRequest]
  /\ wres = [w \in Workers |-> NoResult]
  /\ spc = "recv"
  /\ sres = NoResult
  /\ mpc = "wait"
  /\ panicked = FALSE
  /\ stdout = <<>>
  /\ outcomes = [id \in 1..Len(in) |-> <<>>]

\* The process is alive: main has not returned and no goroutine has panicked.
Running == mpc # "exited" /\ ~panicked

\* A send on inputChan can proceed: room in the buffer, or, unbuffered, a
\* worker waiting in `range inputChan`.
InputReady ==
  IF cfg.bufferSize > 0 THEN Len(inputChan) < cfg.bufferSize
  ELSE \E w \in Workers : wpc[w] = "recv"

\* A send on outputChan can proceed: room in the buffer, or, unbuffered,
\* outputWorker waiting in `range outputChan`.
OutputReady ==
  IF cfg.bufferSize > 0 THEN Len(outputChan) < cfg.bufferSize
  ELSE spc = "recv"

\* outputChan <- result: into the buffer, or handed to the waiting outputWorker.
SendOutput(result) ==
  IF cfg.bufferSize > 0
  THEN /\ outputChan' = Append(outputChan, result)
       /\ UNCHANGED <<spc, sres>>
  ELSE /\ spc' = "print"
       /\ sres' = result
       /\ UNCHANGED outputChan

\* The direct print of a result by the goroutine that made it (`who`).
DirectPrint(result, who) ==
  stdout' = IF result.shouldPrint
            THEN Append(stdout, [text |-> FormatLine(result), id |-> result.id, by |-> who])
            ELSE stdout

Made(id, result, who) ==
  outcomes' = [outcomes EXCEPT ![id] = Append(@, [result |-> result, by |-> who])]

\* scanner.Scan returns a line: blank lines are skipped, a line the pattern
\* does not match becomes a MALFORMED result, a matching line a request.
ProducerScan ==
  /\ Running
  /\ ppc = "scan"
  /\ pos < Len(input)
  /\ pos' = pos + 1
  /\ LET line == TrimSpace(input[pos + 1])
     IN  IF line = ""
         THEN UNCHANGED <<ppc, preq, pres, outcomes>>
         ELSE IF Len(FindStringSubmatch(line)) # 4
         THEN /\ ppc' = "offerMalformed"
              /\ pres' = MalformedResult(line, pos + 1)
              /\ Made(pos + 1, MalformedResult(line, pos + 1), Producer)
              /\ UNCHANGED preq
         ELSE /\ ppc' = "enqueue"
              /\ preq' = RequestOf(line, pos + 1)
              /\ UNCHANGED <<pres, outcomes>>
  /\ UNCHANGED <<cfg, input, inputChan, inClosed, outputChan, outClosed, wpc, wreq, wres,
                 spc, sres, mpc, panicked, stdout, rvars, simple, tvars>>

\* The producer's `case outputChan <- result` (of a MALFORMED or an inline result).
ProducerSendResult ==
  /\ Running
  /\ ppc \in {"offerMalformed", "offerResult"}
  /\ ~outClosed
  /\ OutputReady
  /\ SendOutput(pres)
  /\ ppc' = "scan"
  /\ pres' = NoResult
  /\ UNCHANGED <<cfg, input, pos, preq, inputChan, inClosed, outClosed, wpc, wreq, wres,
                 mpc, panicked, stdout, outcomes, rvars, simple, tvars>>

\* The producer's `case <-time.After(time.Second)` on outputChan: no send
\* could proceed for the second; the result is printed directly if flagged.
ProducerPrintDirect ==
  /\ Running
  /\ ppc \in {"offerMalformed", "offerResult"}
  /\ ~outClosed
  /\ ~OutputReady
  /\ DirectPrint(pres, Producer)
  /\ ppc' = "scan"
  /\ pres' = NoResult
  /\ UNCHANGED <<cfg, input, pos, preq, inputChan, inClosed, outputChan, outClosed, wpc,
                 wreq, wres, spc, sres, mpc, panicked, outcomes, rvars, simple, tvars>>

\* `case inputChan <- request`: into the buffer, or handed to a waiting worker.
ProducerEnqueue ==
  /\ Running
  /\ ppc = "enqueue"
  /\ InputReady
  /\ IF cfg.bufferSize > 0
     THEN /\ inputChan' = Append(inputChan, preq)
          /\ UNCHANGED <<wpc, wreq>>
     ELSE /\ \E w \in Workers :
               /\ wpc[w] = "recv"
               /\ wpc' = [wpc EXCEPT ![w] = "process"]
               /\ wreq' = [wreq EXCEPT ![w] = preq]
          /\ UNCHANGED inputChan
  /\ ppc' = "scan"
  /\ preq' = NoRequest
  /\ UNCHANGED <<cfg, input, pos, pres, inClosed, outputChan, outClosed, wres, spc, sres,
                 mpc, panicked, stdout, outcomes, rvars, simple, tvars>>

\* ProducerTimeout when the request is given up instead of resolved inline.
ProducerTimeoutDrops ==
  /\ Running
  /\ ppc = "enqueue"
  /\ ~InputReady
  /\ ppc' = "scan"
  /\ preq' = NoRequest
  /\ UNCHANGED <<cfg, input, pos, pres, inputChan, inClosed, outputChan, outClosed,
                 wpc, wreq, wres, spc, sres, mpc, panicked, stdout, outcomes, rvars, simple, tvars>>

\* `case <-time.After(time.Second)` on inputChan: no send could proceed for
\* the second; the producer goes on to process the request itself.
ProducerTimeout ==
  /\ Running
  /\ ppc = "enqueue"
  /\ ~InputReady
  /\ ppc' = "inline"
  /\ UNCHANGED <<cfg, input, pos, preq, pres, inputChan, inClosed, outputChan, outClosed,
                 wpc, wreq, wres, spc, sres, mpc, panicked, stdout, outcomes, rvars, simple, tvars>>

\* The producer's inline processDNSRequest.
ProducerInline ==
  /\ Running
  /\ ppc = "inline"
  /\ \E result \in Resolutions(preq, Flags(cfg)) :
       /\ pres' = result
       /\ Made(preq.id, result, Producer)
  /\ ppc' = "offerResult"
  /\ preq' = NoRequest
  /\ UNCHANGED <<cfg, input, pos, inputChan, inClosed, outputChan, outClosed, wpc, wreq,
                 wres, spc, sres, mpc, panicked, stdout, rvars, simple, tvars>>

\* ProducerClose without the deferred close(inputChan).
ProducerReturnsOnly ==
  /\ Running
  /\ ppc = "scan"
  /\ pos = Len(input)
  /\ ppc' = "done"
  /\ UNCHANGED <<cfg, input, pos, preq, pres, inputChan, inClosed, outputChan, outClosed,
                 wpc, wreq, wres, spc, sres, mpc, panicked, stdout, outcomes, rvars, simple, tvars>>

\* scanner.Scan returns false: the goroutine returns and its deferred
\* close(inputChan) runs.
ProducerClose ==
  /\ Running
  /\ ppc = "scan"
  /\ pos = Len(input)
  /\ inClosed' = TRUE
  /\ ppc' = "done"
  /\ UNCHANGED <<cfg, input, pos, preq, pres, inputChan, outputChan, outClosed, wpc, wreq,
                 wres, spc, sres, mpc, panicked, stdout, outcomes, rvars, simple, tvars>>

\* A send on the closed outputChan panics, and the process dies.
SendOnClosed ==
  /\ Running
  /\ outClosed
  /\ (ppc \in {"offerMalformed", "offerResult"} \/ \E w \in Workers : wpc[w] = "send")
  /\ panicked' = TRUE
  /\ UNCHANGED <<cfg, input, pos, ppc, preq, pres, inputChan, inClosed, outputChan,
                 outClosed, wpc, wreq, wres, spc, sres, mpc, stdout, outcomes, rvars, simple, tvars>>

\* WorkerReceive when a worker takes the next request while it still has a
\* result to hand over.
WorkerReceiveEarly(w) ==
  /\ Running
  /\ wpc[w] \in {"recv", "send"}
  /\ Len(inputChan) > 0
  /\ wreq' = [wreq EXCEPT ![w] = Head(inputChan)]
  /\ inputChan' = Tail(inputChan)
  /\ wpc' = [wpc EXCEPT ![w] = "process"]
  /\ UNCHANGED <<cfg, input, pos, ppc, preq, pres, inClosed, outputChan, outClosed, wres,
                 spc, sres, mpc, panicked, stdout, outcomes, rvars, simple, tvars>>

\* dnsWorker: `for request := range inputChan` receives from the buffer.
WorkerReceive(w) ==
  /\ Running
  /\ wpc[w] = "recv"
  /\ Len(inputChan) > 0
  /\ wreq' = [wreq EXCEPT ![w] = Head(inputChan)]
  /\ inputChan' = Tail(inputChan)
  /\ wpc' = [wpc EXCEPT ![w] = "process"]
  /\ UNCHANGED <<cfg, input, pos, ppc, preq, pres, inClosed, outputChan, outClosed, wres,
                 spc, sres, mpc, panicked, stdout, outcomes, rvars, simple, tvars>>

\* dnsWorker: processDNSRequest(request, ...).
WorkerProcess(w) ==
  /\ Running
  /\ wpc[w] = "process"
  /\ \E result \in Resolutions(wreq[w], Flags(cfg)) :
       /\ wres' = [wres EXCEPT ![w] = result]
       /\ Made(wreq[w].id, result, Worker(w))
  /\ wreq' = [wreq EXCEPT ![w] = NoRequest]
  /\ wpc' = [wpc EXCEPT ![w] = "send"]
  /\ UNCHANGED <<cfg, input, pos, ppc, preq, pres, inputChan, inClosed, outputChan,
                 outClosed, spc, sres, mpc, panicked, stdout, rvars, simple, tvars>>

\* dnsWorker: `case outputChan <- result`.
WorkerSendResult(w) ==
  /\ Running
  /\ wpc[w] = "send"
  /\ ~outClosed
  /\ OutputReady
  /\ SendOutput(wres[w])
  /\ wres' = [wres EXCEPT ![w] = NoResult]
  /\ wpc' = [wpc EXCEPT ![w] = "recv"]
  /\ UNCHANGED <<cfg, input, pos, ppc, preq, pres, inputChan, inClosed, outClosed, wreq,
                 mpc, panicked, stdout, outcomes, rvars, simple, tvars>>

\* dnsWorker: `case <-time.After(time.Second)`: the result is printed
\* directly if flagged.
WorkerPrintDirect(w) ==
  /\ Running
  /\ wpc[w] = "send"
  /\ ~outClosed
  /\ ~OutputReady
  /\ DirectPrint(wres[w], Worker(w))
  /\ wres' = [wres EXCEPT ![w] = NoResult]
  /\ wpc' = [wpc EXCEPT ![w] = "recv"]
  /\ UNCHANGED <<cfg, input, pos, ppc, preq, pres, inputChan, inClosed, outputChan,
                 outClosed, wreq, spc, sres, mpc, panicked, outcomes, rvars, simple, tvars>>

\* dnsWorker: inputChan is closed and drained; the loop ends and wg.Done runs.
WorkerExit(w) ==
  /\ Running
  /\ wpc[w] = "recv"
  /\ inClosed
  /\ Len(inputChan) = 0
  /\ wpc' = [wpc EXCEPT ![w] = "done"]
  /\ UNCHANGED <<cfg, input, pos, ppc, preq, pres, inputChan, inClosed, outputChan,
                 outClosed, wreq, wres, spc, sres, mpc, panicked, stdout, outcomes, rvars, simple, tvars>>

\* SinkReceive when the newest result of the buffer is taken.
SinkReceiveLast ==
  /\ Running
  /\ spc = "recv"
  /\ Len(outputChan) > 0
  /\ sres' = outputChan[Len(outputChan)]
  /\ outputChan' = SubSeq(outputChan, 1, Len(outputChan) - 1)
  /\ spc' = "print"
  /\ UNCHANGED <<cfg, input, pos, ppc, preq, pres, inputChan, inClosed, outClosed, wpc,
                 wreq, wres, mpc, panicked, stdout, outcomes, rvars, simple, tvars>>

\* outputWorker: `for result := range outputChan` receives from the buffer.
SinkReceive ==
  /\ Running
  /\ spc = "recv"
  /\ Len(outputChan) > 0
  /\ sres' = Head(outputChan)
  /\ outputChan' = Tail(outputChan)
  /\ spc' = "print"
  /\ UNCHANGED <<cfg, input, pos, ppc, preq, pres, inputChan, inClosed, outClosed, wpc,
                 wreq, wres, mpc, panicked, stdout, outcomes, rvars, simple, tvars>>

\* outputWorker: the body of its loop.
SinkPrint ==
  /\ Running
  /\ spc = "print"
  /\ DirectPrint(sres, Sink)
  /\ sres' = NoResult
  /\ spc' = "recv"
  /\ UNCHANGED <<cfg, input, pos, ppc, preq, pres, inputChan, inClosed, outputChan,
                 outClosed, wpc, wreq, wres, mpc, panicked, outcomes, rvars, simple, tvars>>

\* outputWorker: outputChan is closed and drained; the loop ends and the
\* deferred `done <- true` waits for main.
SinkFinish ==
  /\ Running
  /\ spc = "recv"
  /\ outClosed
  /\ Len(outputChan) = 0
  /\ spc' = "finish"
  /\ UNCHANGED <<cfg, input, pos, ppc, preq, pres, inputChan, inClosed, outputChan,
                 outClosed, wpc, wreq, wres, sres, mpc, panicked, stdout, outcomes, rvars, simple, tvars>>

\* main: wg.Wait() returns when every worker has called wg.Done; then
\* close(outputChan).
MainClose ==
  /\ Running
  /\ mpc = "wait"
  /\ \A w \in Workers : wpc[w] = "done"
  /\ outClosed' = TRUE
  /\ mpc' = "waitDone"
  /\ UNCHANGED <<cfg, input, pos, ppc, preq, pres, inputChan, inClosed, outputChan, wpc,
                 wreq, wres, spc, sres, panicked, stdout, outcomes, rvars, simple, tvars>>

\* main: `<-outputDone` meets outputWorker's `done <- true`; main returns and
\* the process exits.
MainExit ==
  /\ Running
  /\ mpc = "waitDone"
  /\ spc = "finish"
  /\ spc' = "done"
  /\ mpc' = "exited"
  /\ UNCHANGED <<cfg, input, pos, ppc, preq, pres, inputChan, inClosed, outputChan,
                 outClosed, wpc, wreq, wres, sres, panicked, stdout, outcomes, rvars, simple, tvars>>

RInit ==
  /\ rpc = "idle"
  /\ rreq = NoRequest
  /\ rst = InitLookup
  /\ rstatus = ""
  /\ rres = NoResult
  /\ cdnIn = <<>>
  /\ cdnOut = ""
  /\ revArrivals = <<>>

\* --------------------------------------- processDNSRequest, lookup by lookup

\* A call of processDNSRequest begins.
RSStart ==
  /\ rpc = "idle"
  /\ \E line \in {LineOK, LineOddIP} : rreq' = RequestOf(line, 0)
  /\ rst' = InitLookup
  /\ rres' = NoResult
  /\ rpc' = "loop"
  /\ cdnIn' = <<>>
  /\ cdnOut' = ""
  /\ revArrivals' = <<>>
  /\ UNCHANGED <<cfg, pvars, simple, tvars, rstatus>>

\* One iteration of `for i, strategy := range strategies`.
RSStrategy ==
  /\ rpc = "loop"
  /\ \E resp \in Responses :
       LET strategies == Strategies(cfg)
           st == StrategyStep(rst, strategies[rst.i + 1], resp)
       IN  /\ rst' = st
           /\ rpc' = IF ~LoopDone(st, strategies) THEN "loop"
                     ELSE IF NeedsFallback(st) THEN "fallback" ELSE "classify"
  /\ UNCHANGED <<cfg, pvars, simple, tvars, rreq, rstatus, rres, cdnIn, cdnOut, revArrivals>>

\* The net.LookupHost fallback.
RSFallback ==
  /\ rpc = "fallback"
  /\ \E fb \in FbResponses : rst' = FallbackStep(rst, Len(Strategies(cfg)), fb)
  /\ rpc' = "classify"
  /\ UNCHANGED <<cfg, pvars, simple, tvars, rreq, rstatus, rres, cdnIn, cdnOut, revArrivals>>

\* Lines 334-379: DNS_FAILURE and MATCH return; a mismatch calls detectCDN and
\* builds its status.
RSClassify ==
  /\ rpc = "classify"
  /\ IF DNSFailed(rst) \/ foundMatch(rst.ips, rreq.expectedIP)
     THEN /\ rres' = Outcome(rreq, cfg, rst, LiteralOrder, <<>>)
          /\ rpc' = "done"
          /\ UNCHANGED <<rstatus, cdnIn, cdnOut>>
     ELSE /\ \E order \in MapOrders :
               LET cdnProvider == detectCDN(resolvedIPStrings(rst.ips), order)
               IN  /\ cdnIn' = resolvedIPStrings(rst.ips)
                   /\ cdnOut' = cdnProvider
                   /\ rstatus' = MismatchStatus(cdnProvider, rst.successfulStrategy, cfg.verbose)
          /\ rpc' = "reverse"
          /\ UNCHANGED rres
  /\ UNCHANGED <<cfg, pvars, simple, tvars, rreq, rst, revArrivals>>

\* Lines 381-389: the reverse lookups, then the result of a mismatch.
RSReverse ==
  /\ rpc = "reverse"
  /\ \E arrivals \in Arrivals(resolvedIPStrings(rst.ips)) :
       /\ revArrivals' = arrivals
       /\ rres' = MismatchResult(rreq, rstatus,
                                 performReverseLookups(resolvedIPStrings(rst.ips), arrivals))
  /\ rpc' = "done"
  /\ UNCHANGED <<cfg, pvars, simple, tvars, rreq, rst, rstatus, cdnIn, cdnOut>>

\* The same reverse lookups with the same answers, completing in another
\* order: what performReverseLookups returns then.
RSReverseAgain ==
  /\ rpc = "done"
  /\ Len(revArrivals) > 1
  /\ \E order \in Perms(1..Len(revArrivals)) :
       LET arrivals == [k \in 1..Len(revArrivals) |-> revArrivals[order[k]]]
       IN  /\ arrivals # revArrivals
           /\ revArrivals' = arrivals
           /\ rres' = MismatchResult(rreq, rstatus,
                                     performReverseLookups(resolvedIPStrings(rst.ips), arrivals))
  /\ UNCHANGED <<cfg, pvars, simple, tvars, rpc, rreq, rst, rstatus, cdnIn, cdnOut>>

\* The call has returned; the next one may begin.
RSReturn ==
  /\ rpc = "done"
  /\ rpc' = "idle"
  /\ rreq' = NoRequest
  /\ rst' = InitLookup
  /\ rstatus' = ""
  /\ rres' = NoResult
  /\ revArrivals' = <<>>
  /\ UNCHANGED <<cfg, pvars, simple, tvars, cdnIn, cdnOut>>

\* detectCDN applied to a list of literals.
RSDetect ==
  /\ rpc = "idle"
  /\ cdnIn = <<>>
  /\ \E ips \in LiteralLists, order \in MapOrders :
       /\ cdnIn' = ips
       /\ cdnOut' = detectCDN(ips, order)
  /\ UNCHANGED <<cfg, pvars, simple, tvars, rpc, rreq, rst, rstatus, rres, revArrivals>>

\* detectCDN applied once more to the same list.
RSDetectAgain ==
  /\ rpc = "idle"
  /\ cdnIn # <<>>
  /\ \E order \in MapOrders : cdnOut' = detectCDN(cdnIn, order)
  /\ UNCHANGED <<cfg, pvars, simple, tvars, rpc, rreq, rst, rstatus, rres, cdnIn, revArrivals>>

\* ------------------------------------------------------ the simple variant

\* The constants of the simple variant (it has no command-line options).
NumWorkers == 50
InputBufferSize == 1000

\* The simple variant's DNSResult has the line and the flag only.
SimpleResult(line, shouldPrint) == [line |-> line, shouldPrint |-> shouldPrint]

\* processDNSRequest that compares the first resolved address only.
processDNSRequestSimpleFirstOnly(request, answer) ==
  IF answer.err THEN SimpleResult(request.line, TRUE)
  ELSE IF Len(answer.ips) > 0 /\ IPString(answer.ips[1]) = request.expectedIP
       THEN SimpleResult(request.line, FALSE)
       ELSE SimpleResult(request.line, TRUE)

\* processDNSRequest of the simple variant, given what LookupIPAddr returned.
processDNSRequestSimple(request, answer) ==
  IF answer.err THEN SimpleResult(request.line, TRUE)
  ELSE IF \E i \in 1..Len(answer.ips) : IPString(answer.ips[i]) = request.expectedIP
       THEN SimpleResult(request.line, FALSE)
       ELSE SimpleResult(request.line, TRUE)

SimpleIdle ==
  [pc |-> "scan", line |-> "", malformed |-> FALSE, request |-> NoRequest,
   by |-> "", answer |-> LookupError, result |-> SimpleResult("", FALSE),
   printed |-> <<>>]

SimpleInit == simple = SimpleIdle

\* The producer reads a line: a blank one is skipped, one that does not match
\* is offered to outputChan as a result to print, a matching one becomes a
\* request.
SimpleScan ==
  /\ simple.pc = "scan"
  /\ \E raw \in RawLines \cup {LineOddIP} :
       LET line == TrimSpace(raw)
           matches == FindStringSubmatch(line)
       IN  IF line = "" THEN UNCHANGED simple
           ELSE IF Len(matches) # 4
           THEN simple' = [simple EXCEPT !.pc = "offer", !.line = line, !.malformed = TRUE,
                                         !.by = "producer",
                                         !.result = SimpleResult(line, TRUE)]
           ELSE simple' = [simple EXCEPT !.pc = "enqueue", !.line = line,
                                         !.request = RequestOf(line, 0)]
  /\ UNCHANGED <<cfg, pvars, rvars, tvars>>

\* inputChan accepts the request; a worker receives it.
SimpleEnqueue ==
  /\ simple.pc = "enqueue"
  /\ simple' = [simple EXCEPT !.pc = "process", !.by = "worker"]
  /\ UNCHANGED <<cfg, pvars, rvars, tvars>>

\* inputChan stayed full for a second: the producer processes the request.
SimpleEnqueueTimeout ==
  /\ simple.pc = "enqueue"
  /\ simple' = [simple EXCEPT !.pc = "process", !.by = "producer"]
  /\ UNCHANGED <<cfg, pvars, rvars, tvars>>

\* processDNSRequest, in the worker or in the producer.
SimpleProcess ==
  /\ simple.pc = "process"
  /\ \E answer \in Responses :
       simple' = [simple EXCEPT !.pc = "offer", !.answer = answer,
                                !.result = processDNSRequestSimple(simple.request, answer)]
  /\ UNCHANGED <<cfg, pvars, rvars, tvars>>

\* outputChan accepts the result.
SimpleSend ==
  /\ simple.pc = "offer"
  /\ simple' = [simple EXCEPT !.pc = "output"]
  /\ UNCHANGED <<cfg, pvars, rvars, tvars>>

\* outputChan stayed full for a second: the sender prints, a line that did not
\* match unconditionally, a result when its flag is set.
SimpleSendTimeout ==
  /\ simple.pc = "offer"
  /\ simple' = [simple EXCEPT !.pc = "done",
                              !.printed = IF simple.malformed \/ simple.result.shouldPrint
                                          THEN <<simple.result.line>> ELSE <<>>]
  /\ UNCHANGED <<cfg, pvars, rvars, tvars>>

\* outputWorker takes the result and prints its line when the flag is set.
SimpleOutput ==
  /\ simple.pc = "output"
  /\ simple' = [simple EXCEPT !.pc = "done",
                              !.printed = IF simple.result.shouldPrint
                                          THEN <<simple.result.line>> ELSE <<>>]
  /\ UNCHANGED <<cfg, pvars, rvars, tvars>>

\* The line is dealt with; the next one is read.
SimpleNextLine ==
  /\ simple.pc = "done"
  /\ simple' = SimpleIdle
  /\ UNCHANGED <<cfg, pvars, rvars, tvars>>

SimpleNext ==
  \/ SimpleScan
  \/ SimpleEnqueue
  \/ SimpleEnqueueTimeout
  \/ SimpleProcess
  \/ SimpleSend
  \/ SimpleSendTimeout
  \/ SimpleOutput
  \/ SimpleNextLine

\* ------------------------------------------- processDNSRequest with its waits

\* The request of the calls followed with their waits.
TimedRequest == RequestOf(LineOK, 0)

\* k addresses, none of them the expected one.
OtherAddrs(k) == [j \in 1..k |-> IF j % 2 = 1 THEN AddrPlain ELSE AddrAkamai]

\* What a strategy can return in these calls: an error, nothing, the expected
\* address, or one to MaxAddrs other addresses.
TimedAnswers ==
  {LookupError, [err |-> FALSE, ips |-> <<>>], [err |-> FALSE, ips |-> <<AddrExpected>>]}
    \cup {[err |-> FALSE, ips |-> OtherAddrs(k)] : k \in 1..MaxAddrs}

\* What net.LookupHost can return in these calls.
TimedHosts ==
  {[err |-> TRUE, hosts |-> <<>>], [err |-> FALSE, hosts |-> <<>>],
   [err |-> FALSE, hosts |-> <<IPString(AddrExpected)>>],
   [err |-> FALSE, hosts |-> <<IPString(AddrPlain)>>]}

\* make(chan reverseResult): a results channel without a buffer.
ResultsCapUnbuffered(ips) == 0

\* make(chan reverseResult, len(ips))
ResultsCap(ips) == Len(ips)

\* detectCDN of the address lists these calls classify as a mismatch.
TimedCdn ==
  [ips \in {OtherAddrs(k) : k \in 1..MaxAddrs} |->
     detectCDN(resolvedIPStrings(ips), LiteralOrder)]

TInit ==
  /\ tpc = "idle"
  /\ tctx = FALSE
  /\ tlk = InitLookup
  /\ tstatus = ""
  /\ tasks = <<>>
  /\ results = <<>>
  /\ tgot = <<>>
  /\ titer = 0
  /\ tres = NoResult

\* Lines 204-207: the call begins, ctx is made with its deadline; the first
\* strategy is called.
TStart ==
  /\ tpc = "idle"
  /\ tpc' = "strategy"
  /\ tctx' = FALSE
  /\ tlk' = InitLookup
  /\ UNCHANGED <<cfg, pvars, rvars, simple, tstatus, tasks, results, tgot, titer, tres>>

\* The deadline of ctx passes while the call runs.
TDeadline ==
  /\ tpc \in {"strategy", "fallback", "classify", "collect", "done"}
  /\ ~tctx
  /\ tctx' = TRUE
  /\ UNCHANGED <<cfg, pvars, rvars, simple, tpc, tlk, tstatus, tasks, results, tgot, titer, tres>>

\* Lines 309-317 and 320: what follows a strategy's return.
AfterStrategy(st) ==
  IF ~LoopDone(st, Strategies(cfg)) THEN "strategy"
  ELSE IF NeedsFallback(st) THEN "fallback" ELSE "classify"

\* The strategy called returns what the network answered.
TStrategyAnswer ==
  /\ tpc = "strategy"
  /\ \E resp \in TimedAnswers :
       LET st == StrategyStep(tlk, Strategies(cfg)[tlk.i + 1], resp)
       IN  tlk' = st /\ tpc' = AfterStrategy(st)
  /\ UNCHANGED <<cfg, pvars, rvars, simple, tctx, tstatus, tasks, results, tgot, titer, tres>>

\* ctx is done: LookupIPAddr(ctx, domain) returns the context's error.
TStrategyDeadline ==
  /\ tpc = "strategy"
  /\ tctx
  /\ LET st == StrategyStep(tlk, Strategies(cfg)[tlk.i + 1], LookupError)
     IN  tlk' = st /\ tpc' = AfterStrategy(st)
  /\ UNCHANGED <<cfg, pvars, rvars, simple, tctx, tstatus, tasks, results, tgot, titer, tres>>

\* Lines 320-332: net.LookupHost(request.domain) returns what the network
\* answered; it takes no context.
TFallbackAnswer ==
  /\ tpc = "fallback"
  /\ \E fb \in TimedHosts : tlk' = FallbackStep(tlk, Len(Strategies(cfg)), fb)
  /\ tpc' = "classify"
  /\ UNCHANGED <<cfg, pvars, rvars, simple, tctx, tstatus, tasks, results, tgot, titer, tres>>

\* Lines 334-379 and 398-418: DNS_FAILURE and MATCH return; a mismatch gets
\* its status, then performReverseLookups makes the results channel and starts
\* one goroutine per address.
TClassify ==
  /\ tpc = "classify"
  /\ IF DNSFailed(tlk) \/ foundMatch(tlk.ips, TimedRequest.expectedIP)
     THEN /\ tres' = Outcome(TimedRequest, cfg, tlk, LiteralOrder, <<>>)
          /\ tpc' = "done"
          /\ UNCHANGED <<tstatus, tasks, results, tgot, titer>>
     ELSE /\ tstatus' = MismatchStatus(TimedCdn[tlk.ips], tlk.successfulStrategy, cfg.verbose)
          /\ tasks' = [k \in 1..Len(tlk.ips) |->
                        [pc |-> "lookup", hostname |-> "", late |-> FALSE]]
          /\ results' = <<>>
          /\ tgot' = <<>>
          /\ titer' = 0
          /\ tpc' = "collect"
          /\ UNCHANGED tres
  /\ UNCHANGED <<cfg, pvars, rvars, simple, tctx, tlk>>

\* Lines 405-417 in goroutine k: LookupAddr returns what the network answered.
TaskAnswer(k) ==
  /\ k \in 1..Len(tasks)
  /\ tasks[k].pc = "lookup"
  /\ \E found \in BOOLEAN :
       tasks' = [tasks EXCEPT ![k] =
                  [pc |-> "send", late |-> FALSE,
                   hostname |-> TaskSends(resolvedIPStrings(tlk.ips), k, found).hostname]]
  /\ UNCHANGED <<cfg, pvars, rvars, simple, tpc, tctx, tlk, tstatus, results, tgot, titer, tres>>

\* reverseCtx is done (its 2 s have passed, or ctx is done): LookupAddr
\* returns the context's error.
TaskDeadline(k) ==
  /\ k \in 1..Len(tasks)
  /\ tasks[k].pc = "lookup"
  /\ tasks' = [tasks EXCEPT ![k] = [pc |-> "send", hostname |-> "", late |-> FALSE]]
  /\ UNCHANGED <<cfg, pvars, rvars, simple, tpc, tctx, tlk, tstatus, results, tgot, titer, tres>>

\* results <- reverseResult{...}: goroutine k sends and ends (late records
\* that the collection loop had ended by then).
TaskSend(k) ==
  /\ k \in 1..Len(tasks)
  /\ tasks[k].pc = "send"
  /\ Len(results) < ResultsCap(tlk.ips)
  /\ results' = Append(results, [ip |-> IPString(tlk.ips[k]), hostname |-> tasks[k].hostname])
  /\ tasks' = [tasks EXCEPT ![k].pc = "done", ![k].late = (tpc # "collect")]
  /\ UNCHANGED <<cfg, pvars, rvars, simple, tpc, tctx, tlk, tstatus, tgot, titer, tres>>

\* Lines 422-424: an iteration of the collection loop receives a result.
TCollectReceive ==
  /\ tpc = "collect"
  /\ titer < Len(tlk.ips)
  /\ results # <<>>
  /\ tgot' = Append(tgot, Head(results))
  /\ results' = Tail(results)
  /\ titer' = titer + 1
  /\ UNCHANGED <<cfg, pvars, rvars, simple, tpc, tctx, tlk, tstatus, tasks, tres>>

\* The select of the collection loop without its ctx.Done() case.
TCollectNoCtxCase ==
  /\ tpc = "collect"
  /\ titer < Len(tlk.ips)
  /\ FALSE
  /\ titer' = titer + 1
  /\ UNCHANGED <<cfg, pvars, rvars, simple, tpc, tctx, tlk, tstatus, tasks, results, tgot, tres>>

\* Lines 425-427: an iteration takes <-ctx.Done(); its break leaves the
\* select, and the loop goes on to its next iteration.
TCollectCtxDone ==
  /\ tpc = "collect"
  /\ titer < Len(tlk.ips)
  /\ tctx
  /\ titer' = titer + 1
  /\ UNCHANGED <<cfg, pvars, rvars, simple, tpc, tctx, tlk, tstatus, tasks, results, tgot, tres>>

\* Lines 432-442 and 384-389: the loop has made its len(ips) iterations; the
\* addresses are formatted and the result of the mismatch is built.
TCollectFinish ==
  /\ tpc = "collect"
  /\ titer = Len(tlk.ips)
  /\ tres' = MismatchResult(TimedRequest, tstatus,
                            performReverseLookups(resolvedIPStrings(tlk.ips), tgot))
  /\ tpc' = "done"
  /\ UNCHANGED <<cfg, pvars, rvars, simple, tctx, tlk, tstatus, tasks, results, tgot, titer>>

\* The call returns; the deferred cancel() ends ctx. Goroutines of
\* performReverseLookups may still run.
TReturn ==
  /\ tpc = "done"
  /\ tpc' = "returned"
  /\ tctx' = TRUE
  /\ UNCHANGED <<cfg, pvars, rvars, simple, tlk, tstatus, tasks, results, tgot, titer, tres>>

\* All goroutines of the call have ended; the next call may begin.
TNextCall ==
  /\ tpc = "returned"
  /\ \A k \in 1..Len(tasks) : tasks[k].pc = "done"
  /\ tpc' = "idle"
  /\ tctx' = FALSE
  /\ tlk' = InitLookup
  /\ tstatus' = ""
  /\ tasks' = <<>>
  /\ results' = <<>>
  /\ tgot' = <<>>
  /\ titer' = 0
  /\ tres' = NoResult
  /\ UNCHANGED <<cfg, pvars, rvars, simple>>

TimedNext ==
  \/ TStart
  \/ TDeadline
  \/ TStrategyAnswer
  \/ TStrategyDeadline
  \/ TFallbackAnswer
  \/ TClassify
  \/ \E k \in 1..MaxAddrs : TaskAnswer(k)
  \/ \E k \in 1..MaxAddrs : TaskDeadline(k)
  \/ \E k \in 1..MaxAddrs : TaskSend(k)
  \/ TCollectReceive
  \/ TCollectCtxDone
  \/ TCollectFinish
  \/ TReturn
  \/ TNextCall

\* ------------------------------------------------------ the specifications

ResolveInit ==
  /\ cfg \in {Config(1, 1, f) : f \in FlagSets}
  /\ PInit(<<>>)
  /\ RInit
  /\ SimpleInit
  /\ TInit

ResolveNext ==
  \/ RSStart
  \/ RSStrategy
  \/ RSFallback
  \/ RSClassify
  \/ RSReverse
  \/ RSReverseAgain
  \/ RSReturn
  \/ RSDetect
  \/ RSDetectAgain

SpecResolve == ResolveInit /\ [][ResolveNext]_vars

Init ==
  /\ cfg \in {Config(n, k, DefaultFlags) : n \in 0..MaxWorkers, k \in 0..MaxBuffer}
  /\ \E in \in Inputs : PInit(in)
  /\ RInit
  /\ SimpleInit
  /\ TInit

Next ==
  \/ ProducerScan
  \/ ProducerSendResult
  \/ ProducerPrintDirect
  \/ ProducerEnqueue
  \/ ProducerTimeout
  \/ ProducerInline
  \/ ProducerClose
  \/ \E w \in Workers : WorkerReceive(w)
  \/ \E w \in Workers : WorkerProcess(w)
  \/ \E w \in Workers : WorkerSendResult(w)
  \/ \E w \in Workers : WorkerPrintDirect(w)
  \/ \E w \in Workers : WorkerExit(w)
  \/ SinkReceive
  \/ SinkPrint
  \/ SinkFinish
  \/ MainClose
  \/ MainExit
  \/ SendOnClosed

Spec == Init /\ [][Next]_vars

InitSimple ==
  /\ cfg = Config(NumWorkers, InputBufferSize, DefaultFlags)
  /\ PInit(<<>>)
  /\ RInit
  /\ SimpleInit
  /\ TInit

SpecSimple == InitSimple /\ [][SimpleNext]_vars

InitTimed ==
  /\ cfg \in {Config(1, 1, f) : f \in FlagSets}
  /\ PInit(<<>>)
  /\ RInit
  /\ SimpleInit
  /\ TInit

SpecTimed == InitTimed /\ [][TimedNext]_vars

\* The goroutine that called performReverseLookups runs; nothing is assumed
\* of the lookup goroutines or of the network.
FairCollector ==
  /\ SpecTimed
  /\ WF_vars(TCollectReceive \/ TCollectCtxDone)
  /\ WF_vars(TCollectFinish)

\* What the program and its clocks do by themselves: a deadline passes, a
\* call on a done context returns, a goroutine that can send does, the
\* collection loop takes a branch that is ready, the call goes on and returns.
\* Whether and when the network answers is left open.
FairTimed ==
  /\ SpecTimed
  /\ WF_vars(TDeadline)
  /\ WF_vars(TStrategyDeadline)
  /\ WF_vars(TClassify)
  /\ \A k \in 1..MaxAddrs : WF_vars(TaskDeadline(k))
  /\ \A k \in 1..MaxAddrs : WF_vars(TaskSend(k))
  /\ WF_vars(TCollectReceive \/ TCollectCtxDone)
  /\ WF_vars(TCollectFinish)
  /\ WF_vars(TReturn)

\* ===================================================== processDNSRequest

\* A call of processDNSRequest has returned (its state is kept until the
\* next call begins).
Returned == rpc = "done"

\* The status tags, as the spec writes them.
CdnTag ==
  [p \in Providers |->
    CASE p = "cloudflare" -> "CDN_MISMATCH_CLOUDFLARE"
      [] p = "cloudfront" -> "CDN_MISMATCH_CLOUDFRONT"
      [] p = "aws_global_accelerator" -> "CDN_MISMATCH_AWS_GLOBAL_ACCELERATOR"
      [] p = "fastly" -> "CDN_MISMATCH_FASTLY"
      [] OTHER -> "CDN_MISMATCH_AKAMAI"]

\* The strategy-identity tags of verbose mode, and none.
ViaTags ==
  {"", "_VIA_SYSTEM", "_VIA_GO-BUILTIN", "_VIA_GOOGLE", "_VIA_CLOUDFLARE", "_VIA_QUAD9",
   "_VIA_OPENDNS", "_VIA_FALLBACK"}

\* The providers whose published ranges hold an address of the model:
\* 23.32.0.1 is Akamai's, 54.239.130.1 is in 54.239.128.0/18 (cloudfront) and
\* in 54.239.0.0/16 (aws_global_accelerator), the others are in no range.
ProvidersOf(ip) ==
  IF ip = AddrAkamai THEN {"akamai"}
  ELSE IF ip = AddrOverlap THEN {"cloudfront", "aws_global_accelerator"}
  ELSE {}

\* The expected address of the returned call's request is among the resolved.
ExpectedResolved ==
  \E i \in 1..Len(rst.ips) : rst.ips[i] = ParseIP(rreq.expectedIP)

\* C3: whenever at least one resolved address equals the request's expected
\* address, at any position and among any other addresses, processDNSRequest
\* returns status MATCH with the emit flag false.
C3_MatchSuppressed ==
  (Returned /\ ExpectedResolved) => (rres.status = "MATCH" /\ ~rres.shouldPrint)

\* C3's case: the expected address came second, after one that does not match.
C3_Witness ==
  /\ Returned
  /\ rst.ips = <<AddrPlain, AddrExpected>>
  /\ rreq.expectedIP = "1.2.3.4"
  /\ rres.status = "MATCH"

\* C4: when every strategy and the host-lookup fallback yielded no address
\* (by an error or by an empty set), the result is DNS_FAILURE with the emit
\* flag true and no address, and its line is "<raw line> DNS_FAILURE".
C4_DnsFailure ==
  (Returned /\ rst.allFailed) =>
    /\ rres.status = "DNS_FAILURE"
    /\ rres.shouldPrint
    /\ rres.resolvedIPs = <<>>
    /\ FormatLine(rres) = rreq.line \o " DNS_FAILURE"

\* C4's case: the last strategy answered an empty set without an error.
C4_Witness ==
  /\ Returned
  /\ rst.allFailed
  /\ ~rst.err
  /\ rst.calls = Strategies(cfg)
  /\ rres.status = "DNS_FAILURE"

\* C5: a non-empty resolved set without the expected address is CDN_MISMATCH_
\* <PROVIDER>, for a provider one of whose prefixes holds a resolved address,
\* if there is one and IP_MISMATCH if not, emitted either way; and detectCDN
\* passes over the literals that do not parse.
C5_Classification ==
  /\ (Returned /\ Len(rst.ips) > 0 /\ ~ExpectedResolved) =>
       /\ rres.shouldPrint
       /\ LET hit == UNION {ProvidersOf(rst.ips[i]) : i \in 1..Len(rst.ips)}
          IN  IF hit = {}
              THEN \E via \in ViaTags : rres.status = "IP_MISMATCH" \o via
              ELSE \E p \in hit, via \in ViaTags : rres.status = CdnTag[p] \o via
  /\ LET hit == UNION {ProvidersOf(ParseIP(cdnIn[i])) : i \in 1..Len(cdnIn)}
     IN  IF hit = {} THEN cdnOut = "" ELSE cdnOut \in hit

\* C5's case: the CDN address is the second resolved address.
C5_Witness ==
  /\ Returned
  /\ rst.ips = <<AddrPlain, AddrAkamai>>
  /\ rres.status = "CDN_MISMATCH_AKAMAI"
  /\ rres.shouldPrint

\* C6: detectCDN is deterministic: applied again to the same address list, it
\* returns the same provider.
C6_Deterministic == [][cdnIn' = cdnIn => cdnOut' = cdnOut]_vars

\* ============================================================= the pipeline

\* Every goroutine gets its turn: the Go scheduler is fair to a goroutine
\* that stays runnable, and a timer that stays armed fires.
ProducerStep ==
  \/ ProducerScan \/ ProducerSendResult \/ ProducerPrintDirect \/ ProducerEnqueue
  \/ ProducerTimeout \/ ProducerInline \/ ProducerClose

WorkerStep(w) ==
  /\ w \in Workers
  /\ \/ WorkerReceive(w) \/ WorkerProcess(w) \/ WorkerSendResult(w)
     \/ WorkerPrintDirect(w) \/ WorkerExit(w)

SinkStep == SinkReceive \/ SinkPrint \/ SinkFinish

MainStep == MainClose \/ MainExit

FairSpec ==
  /\ Spec
  /\ WF_vars(ProducerStep)
  /\ \A w \in 1..MaxWorkers : WF_vars(WorkerStep(w))
  /\ WF_vars(SinkStep)
  /\ WF_vars(MainStep)
  /\ WF_vars(SendOnClosed)

\* main has returned.
Exited == mpc = "exited"

\* The record matches the input pattern / is neither blank nor matching.
WellFormed(raw) == Len(FindStringSubmatch(TrimSpace(raw))) = 4
Malformed(raw) == TrimSpace(raw) # "" /\ ~WellFormed(raw)

\* The records the producer has read so far.
Read == 1..pos

\* How many lines standard output holds for the outcome of record id.
Written(id) == Cardinality({i \in 1..Len(stdout) : stdout[i].id = id})

\* C1: every well-formed record the producer read is resolved exactly once,
\* by a worker or by the producer inline and never by both: at process exit
\* there are as many outcomes as well-formed records read.
C1_ResolvedOnce ==
  /\ \A id \in 1..Len(input) : Len(outcomes[id]) <= 1
  /\ Exited => \A id \in Read : WellFormed(input[id]) => Len(outcomes[id]) = 1

\* C2: every outcome whose emit flag is set is on standard output exactly once
\* at exit (never twice before), with its own line, and a MATCH outcome never.
C2_EmittedOnce ==
  /\ \A i \in 1..Len(stdout) :
       \E k \in 1..Len(outcomes[stdout[i].id]) :
         LET result == outcomes[stdout[i].id][k].result
         IN  result.shouldPrint /\ stdout[i].text = FormatLine(result)
  /\ \A id \in 1..Len(input) : \A k \in 1..Len(outcomes[id]) :
       LET result == outcomes[id][k].result
       IN  /\ result.status = "MATCH" => Written(id) = 0
           /\ result.shouldPrint => Written(id) <= 1 /\ (Exited => Written(id) = 1)

\* The requests on their way: in the request queue, with the producer, with
\* a worker.
InFlight ==
  {inputChan[i] : i \in 1..Len(inputChan)}
    \cup {wreq[w] : w \in Workers} \cup {preq}

\* C7: a non-blank record that does not match the pattern is never queued nor
\* resolved; it gets exactly one outcome, MALFORMED with the emit flag set,
\* written exactly once as "<trimmed line> MALFORMED".
C7_MalformedOnce ==
  /\ \A request \in InFlight : request.id # 0 => WellFormed(input[request.id])
  /\ \A id \in 1..Len(input) : Malformed(input[id]) =>
       /\ Len(outcomes[id]) = IF id \in Read THEN 1 ELSE 0
       /\ \A k \in 1..Len(outcomes[id]) :
            /\ outcomes[id][k].by = Producer
            /\ outcomes[id][k].result.status = "MALFORMED"
            /\ outcomes[id][k].result.shouldPrint
       /\ \A i \in 1..Len(stdout) :
            stdout[i].id = id => stdout[i].text = TrimSpace(input[id]) \o " MALFORMED"
       /\ Written(id) <= 1
       /\ (Exited /\ id \in Read) => Written(id) = 1

\* The result queue takes `result` in this step: into its buffer, or, when
\* unbuffered, into the hands of the waiting outputWorker.
Accepted(result) ==
  IF cfg.bufferSize > 0
  THEN outputChan' = Append(outputChan, result) /\ UNCHANGED <<spc, sres>>
  ELSE spc = "recv" /\ spc' = "print" /\ sres' = result /\ UNCHANGED outputChan

\* The offer of `result` by `who` ends in this step in one of the two ways:
\* the queue takes it and nothing is written, or the queue does not take it
\* and `who` writes its line if and only if its emit flag is set.
OfferEnds(result, who) ==
  \/ Accepted(result) /\ stdout' = stdout
  \/ /\ UNCHANGED <<outputChan, spc, sres>>
     /\ stdout' = IF result.shouldPrint
                  THEN Append(stdout, [text |-> FormatLine(result), id |-> result.id,
                                       by |-> who])
                  ELSE stdout

\* The request queue takes the producer's request in this step.
Enqueued ==
  IF cfg.bufferSize > 0
  THEN inputChan' = Append(inputChan, preq) /\ UNCHANGED <<wpc, wreq>>
  ELSE /\ UNCHANGED inputChan
       /\ \E w \in Workers :
            /\ wpc[w] = "recv"
            /\ wpc' = [wpc EXCEPT ![w] = "process"]
            /\ wreq' = [wreq EXCEPT ![w] = preq]

\* The request queue is full: its buffer is, or, unbuffered, no worker waits.
QueueFull ==
  IF cfg.bufferSize > 0 THEN Len(inputChan) >= cfg.bufferSize
  ELSE \A w \in Workers : wpc[w] # "recv"

\* C8, its steps: the producer leaves its enqueue only by the queue taking
\* the request, after which it reads on, or, the queue being full, by keeping
\* the request to resolve it itself; the inline resolution gives the request
\* its outcome, made by the producer, and after offering it the producer
\* reads on.
C8_Steps ==
  /\ (ppc = "enqueue" /\ ppc' # "enqueue") =>
       \/ Enqueued /\ ppc' = "scan" /\ UNCHANGED outcomes
       \/ QueueFull /\ ppc' = "inline" /\ preq' = preq /\ UNCHANGED <<inputChan, wreq, outcomes>>
  /\ (ppc = "inline" /\ ppc' # "inline") =>
       /\ ppc' = "offerResult"
       /\ pres'.id = preq.id
       /\ outcomes' = [outcomes EXCEPT ![preq.id] = Append(@, [result |-> pres', by |-> Producer])]
       /\ UNCHANGED <<inputChan, wreq>>
  /\ (ppc = "offerResult" /\ ppc' # "offerResult") => ppc' = "scan"

\* C8: the producer never blocks indefinitely on the request queue: while the
\* process lives, at its enqueue either the queue can take the request or the
\* grace period can run out; the request is then accepted or, only if the
\* queue was full, resolved inline, never dropped, and the producer reads on.
C8_BoundedEnqueue ==
  /\ [](Running /\ ppc = "enqueue" => ENABLED ProducerEnqueue \/ ENABLED ProducerTimeout)
  /\ [][C8_Steps]_vars

\* C8's case: the queue was full, the producer resolved a request itself,
\* offered the outcome and read the next record.
C8_Witness ==
  /\ pos = 2
  /\ ppc = "enqueue"
  /\ Len(outcomes[1]) = 1
  /\ outcomes[1][1].by = Producer
  /\ outcomes[1][1].result.status # "MALFORMED"

\* C9, its steps: an offer to the result queue, by the producer's inline path
\* or by a worker, ends by the queue taking the outcome or by the offerer
\* writing it (if and only if flagged), never both.
C9_Steps ==
  /\ (ppc = "offerResult" /\ ppc' # "offerResult") => OfferEnds(pres, Producer)
  /\ \A w \in Workers : (wpc[w] = "send" /\ wpc'[w] # "send") => OfferEnds(wres[w], Worker(w))

\* C9: every outcome offered to the result queue is offered with a bounded
\* wait: the offerer can always either hand it to the queue or, the grace
\* period over, write it itself (iff flagged) and discard it; it does exactly
\* one of the two and never blocks on the offer.
C9_BoundedOffer ==
  /\ [](Running /\ ppc = "offerResult" =>
          ENABLED ProducerSendResult \/ ENABLED ProducerPrintDirect)
  /\ [](\A w \in Workers : Running /\ wpc[w] = "send" =>
          ENABLED WorkerSendResult(w) \/ ENABLED WorkerPrintDirect(w))
  /\ [][C9_Steps]_vars

\* The pipeline has shut down in order.
Terminated ==
  /\ pos = Len(input)
  /\ ppc = "done"
  /\ inClosed
  /\ \A w \in Workers : wpc[w] = "done"
  /\ outClosed
  /\ outputChan = <<>>
  /\ spc = "done"
  /\ Exited

\* C10: for any finite input, any capacity and a pool of at least one worker,
\* under fair scheduling the pipeline terminates: the producer reads all the
\* input and closes the request queue, every worker returns, the result queue
\* is closed and drained, the output worker signals, main exits.
C10_Terminates == (cfg.workers >= 1) => <>Terminated

\* C10's case: terminated although the request queue was full when the
\* producer came to enqueue, so that the producer resolved a request itself.
C10_Witness ==
  /\ cfg.workers >= 1
  /\ Terminated
  /\ \E id \in 1..Len(input) :
       /\ Len(outcomes[id]) = 1
       /\ outcomes[id][1].by = Producer
       /\ outcomes[id][1].result.status # "MALFORMED"

\* The workers whose forward resolution of a request is in progress, and how
\* many resolutions are in progress in the whole process: theirs and the one
\* the producer runs inline.
Resolving == {w \in Workers : wpc[w] = "process"}
InProgress == Cardinality(Resolving) + (IF ppc = "inline" THEN 1 ELSE 0)

\* A worker holds a request exactly while it resolves it and a result exactly
\* while it offers it: it has one request in flight at most and takes the next
\* only when the last one's result is handed over.
OneEach ==
  \A w \in Workers :
    /\ wreq[w] # NoRequest <=> wpc[w] = "process"
    /\ wres[w] # NoResult <=> wpc[w] = "send"

\* C11: in every reachable state at most N forward resolutions are in progress
\* in the whole process, N the pool size, and no worker has more than one
\* request in flight.
C11_PoolBound == InProgress <= cfg.workers /\ OneEach

\* C11, amended: at most N + 1 forward resolutions are in progress: at most N
\* in the workers, one request per worker, and at most one more in the
\* producer, which resolves inline when the request queue stays full.
C11_PoolBoundPlusInline ==
  /\ Cardinality(Resolving) <= cfg.workers
  /\ InProgress <= cfg.workers + 1
  /\ OneEach

\* C11's case: every worker of a pool resolves and the producer does too.
C11_Witness ==
  /\ cfg.workers >= 1
  /\ Resolving = Workers
  /\ ppc = "inline"

\* ------------------------------------------------------ the strategy chain

\* The strategies invoked so far by the call in progress, in order (the
\* fallback is not one of them).
Invoked == SelectSeq(rst.calls, LAMBDA label : label # "fallback")

\* C12: restricted to one named public resolver, the chain built for a
\* request is that resolver's strategy alone; the system resolver, the
\* built-in resolver and the other public resolvers are never invoked as
\* strategies.
C12_ForcedChain ==
  /\ cfg.forceGoogle =>
       Strategies(cfg) = <<"google">> /\ Invoked \in {<<>>, <<"google">>}
  /\ cfg.forceCF =>
       Strategies(cfg) = <<"cloudflare">> /\ Invoked \in {<<>>, <<"cloudflare">>}

\* C12's case: restricted to Cloudflare, the one strategy failed and only the
\* fallback followed.
C12_Witness ==
  /\ Returned
  /\ cfg.forceCF
  /\ rst.calls = <<"cloudflare", "fallback">>

\* C13: with the system resolver skipped and no restriction to one resolver,
\* the chain is the default chain without its strategy 1 only: the built-in
\* resolver and the four public resolvers remain, in their order.
C13_SkipSystemOnly ==
  (cfg.noSystemDNS /\ ~cfg.forceGoogle /\ ~cfg.forceCF) =>
    Strategies(cfg) = <<"go-builtin", "google", "cloudflare", "quad9", "opendns">>

\* The strategy-identity tag of each lookup, as the spec writes it.
ViaTag(label) ==
  CASE label = "system" -> "_VIA_SYSTEM"
    [] label = "go-builtin" -> "_VIA_GO-BUILTIN"
    [] label = "google" -> "_VIA_GOOGLE"
    [] label = "cloudflare" -> "_VIA_CLOUDFLARE"
    [] label = "quad9" -> "_VIA_QUAD9"
    [] label = "opendns" -> "_VIA_OPENDNS"
    [] OTHER -> "_VIA_FALLBACK"

EndsWith(s, suffix) ==
  Len(s) >= Len(suffix) /\ SubSeq(s, Len(s) - Len(suffix) + 1, Len(s)) = suffix

\* A call has returned a mismatch (IP_MISMATCH or CDN_MISMATCH_...).
ReturnedMismatch == Returned /\ rres.shouldPrint /\ rres.status # "DNS_FAILURE"

\* The lookup that produced the address set of the returned call: the last
\* one made (a success ends the loop, and the fallback comes last).
Producing == rst.calls[Len(rst.calls)]

\* C14: in verbose mode the _VIA_<NAME> tag of a mismatch names the strategy
\* that produced the reported address set, under every combination of the
\* single-resolver and skip-system-resolver options.
C14_ViaNamesStrategy ==
  (ReturnedMismatch /\ cfg.verbose) => EndsWith(rres.status, ViaTag(Producing))

\* ---------------------------------------------------------- the output sink

\* C15, its steps: the result queue gains entries at its tail only and loses
\* them at its head only, to the output worker; the output worker handles the
\* one outcome it holds before it takes the next, writes its line if and only
\* if it is flagged, and ends its loop only on the closed and empty queue.
C15_Steps ==
  /\ outputChan' # outputChan =>
       \/ /\ Len(outputChan') = Len(outputChan) + 1
          /\ SubSeq(outputChan', 1, Len(outputChan)) = outputChan
          /\ UNCHANGED <<spc, sres>>
       \/ /\ outputChan # <<>>
          /\ outputChan' = Tail(outputChan)
          /\ spc = "recv" /\ spc' = "print"
          /\ sres' = Head(outputChan)
  /\ (spc = "recv" /\ spc' = "print" /\ outputChan' = outputChan) =>
       /\ cfg.bufferSize = 0
       /\ \/ ppc \in {"offerMalformed", "offerResult"} /\ sres' = pres /\ ppc' = "scan"
          \/ \E w \in Workers : wpc[w] = "send" /\ sres' = wres[w] /\ wpc'[w] = "recv"
  /\ spc = "print" =>
       \/ UNCHANGED <<spc, sres>>
       \/ /\ spc' = "recv"
          /\ UNCHANGED outputChan
          /\ stdout' = IF sres.shouldPrint
                       THEN Append(stdout, [text |-> FormatLine(sres), id |-> sres.id,
                                            by |-> Sink])
                       ELSE stdout
  /\ (spc # "finish" /\ spc' = "finish") =>
       spc = "recv" /\ outClosed /\ outputChan = <<>>

\* C15: the output worker is the one consumer of the result queue and handles
\* the outcomes in the order the queue accepted them; it writes an outcome if
\* and only if its emit flag is set, goes on consuming while the process lives
\* until the queue is closed and drained, and signals completion only then.
C15_SinkFifo ==
  /\ [][C15_Steps]_vars
  /\ [](Running /\ spc = "recv" /\ outputChan # <<>> => ENABLED SinkReceive)
  /\ [](Running /\ spc = "print" => ENABLED SinkPrint)
  /\ [](spc \in {"finish", "done"} => outClosed /\ outputChan = <<>>)
  /\ [](Exited => spc = "done")

\* C15's case: two outcomes were in the queue; the output worker holds the
\* one accepted first, of the second record, while the other one waits.
C15_Witness ==
  /\ spc = "print"
  /\ sres.id = 2
  /\ Len(outputChan) = 1
  /\ outputChan[1].id = 1
  /\ Len(stdout) = 0


\* ------------------------------------------------------------------ C16

\* The entry performReverseLookups may return for an address: the address
\* alone, or the address with its PTR name, root dot stripped, in brackets.
EntriesFor(ipAddr) ==
  {ipAddr, ipAddr \o "[" \o TrimSuffix(RawHost(ipAddr), ".") \o "]"}

ReverseDone == ReturnedMismatch /\ rst.ips # <<>>

\* C16: performReverseLookups returns one entry per input address, in the
\* order of the input; entry i is the i-th address, bare or followed by its
\* hostname without the root dot; and the list does not depend on the order in
\* which the same reverse lookups complete.
C16_OrderIndependent ==
  /\ [](ReverseDone =>
          /\ Len(rres.resolvedIPs) = Len(rst.ips)
          /\ \A i \in 1..Len(rst.ips) :
               rres.resolvedIPs[i] \in EntriesFor(IPString(rst.ips[i])))
  /\ [][(ReverseDone /\ ReverseDone' /\ rreq' = rreq /\ rst' = rst)
          => rres'.resolvedIPs = rres.resolvedIPs]_vars

\* ------------------------------------------------------------------ C17

Annotated(entry, ipAddr) == entry # ipAddr

\* C17: the reverse lookups change neither the status nor the emit flag of a
\* mismatch: both are what was computed before performReverseLookups was
\* called, whichever lookups succeed, fail or run out of time and in whatever
\* order they complete; and an address is annotated only with a hostname that
\* a reverse lookup of that address delivered in time.
C17_EnrichmentFrame ==
  /\ [][rpc = "reverse" =>
          /\ rstatus' = rstatus
          /\ rres'.status = rstatus
          /\ rres'.shouldPrint
          /\ rres'.line = rreq.line]_vars
  /\ [][(Returned /\ Returned') =>
          /\ rres'.status = rres.status
          /\ rres'.shouldPrint = rres.shouldPrint]_vars
  /\ [](ReverseDone =>
          \A i \in 1..Len(rst.ips) :
            LET ipAddr == IPString(rst.ips[i])
            IN  Annotated(rres.resolvedIPs[i], ipAddr) =>
                  \E k \in 1..Len(revArrivals) :
                    /\ revArrivals[k].ip = ipAddr
                    /\ revArrivals[k].hostname # ""
                    /\ rres.resolvedIPs[i] = ipAddr \o "[" \o revArrivals[k].hostname \o "]")

\* Two addresses looked up: the first is annotated, the result for the second
\* was not received in time.
C17_Witness ==
  /\ ReverseDone
  /\ Len(rst.ips) = 2
  /\ Len(revArrivals) = 1
  /\ Annotated(rres.resolvedIPs[1], IPString(rst.ips[1]))
  /\ ~Annotated(rres.resolvedIPs[2], IPString(rst.ips[2]))

\* ------------------------------------------------------------------ C18

SimpleHandled == simple.pc = "done"

\* Some resolved address is the expected IP of the line.
SimpleExpectedResolved ==
  \E i \in 1..Len(simple.answer.ips) :
    simple.answer.ips[i] = ParseIP(simple.request.expectedIP)

SimplePrinted == simple.printed = <<simple.line>>

\* C18: in the simple variant a well-formed line is printed if and only if
\* its lookup failed or no resolved address equals the expected IP, so a line
\* whose resolution contains the expected IP is not printed; a malformed line
\* is always printed; whatever is printed is the line itself, once.
C18_SimplePrintRule ==
  SimpleHandled =>
    /\ simple.printed \in {<<>>, <<simple.line>>}
    /\ simple.malformed => SimplePrinted
    /\ ~simple.malformed =>
         (SimplePrinted <=> (simple.answer.err \/ ~SimpleExpectedResolved))

\* The expected IP is the second of two resolved addresses: nothing is printed.
C18_Witness ==
  /\ SimpleHandled
  /\ ~simple.malformed
  /\ simple.answer.ips = <<AddrPlain, AddrExpected>>
  /\ simple.request.expectedIP = "1.2.3.4"
  /\ simple.printed = <<>>

\* ------------------------------------------------------------------ C19

SomeStrategySucceeded == rst.firstOk # <<>>

\* A step in which a strategy is invoked: it is the next one of the chain, all
\* strategies before it have been invoked, in order, and every one failed.
C19_Steps ==
  (rpc = "loop" /\ rst'.calls # rst.calls) =>
    /\ Len(rst.calls) < Len(Strategies(cfg))
    /\ rst.calls = SubSeq(Strategies(cfg), 1, Len(rst.calls))
    /\ rst'.calls = Append(rst.calls, Strategies(cfg)[Len(rst.calls) + 1])
    /\ rst.allFailed
    /\ ~SomeStrategySucceeded

\* C19: the strategies are invoked one at a time in the order of the chain;
\* strategy i is invoked only after every strategy before it failed and none
\* is invoked after one returned addresses without an error; and the request
\* is classified on exactly the addresses the first successful strategy
\* returned.
C19_ShortCircuit ==
  /\ [][C19_Steps]_vars
  /\ []((Returned /\ SomeStrategySucceeded) =>
          /\ rst.ips = rst.firstOk
          /\ Invoked = rst.calls
          /\ rres.status # "DNS_FAILURE"
          /\ rres.status = "MATCH" <=> foundMatch(rst.firstOk, rreq.expectedIP)
          /\ rres.status = "MATCH" => rres.resolvedIPs = resolvedIPStrings(rst.firstOk)
          /\ rres.status # "MATCH" =>
               /\ cdnIn = resolvedIPStrings(rst.firstOk)
               /\ Len(rres.resolvedIPs) = Len(rst.firstOk))

\* The third strategy of the default chain answered after two had failed.
C19_Witness ==
  /\ Returned
  /\ rst.calls = <<"system", "go-builtin", "google">>
  /\ rst.firstOk = <<AddrPlain, AddrAkamai>>
  /\ rst.ips = rst.firstOk

\* ------------------------------------------------------------------ C20

\* Every strategy of the chain was invoked and none returned an address
\* without an error.
AllStrategiesFailed == Invoked = Strategies(cfg) /\ ~SomeStrategySucceeded

FallbackAttempts == Len(rst.calls) - Len(Invoked)

\* C20: when every configured strategy failed, by an error or by an empty
\* answer without one, net.LookupHost is tried exactly once before the request
\* is classified, so no DNS_FAILURE is returned without it; when some strategy
\* succeeded it is not tried.
C20_FallbackOnce ==
  /\ FallbackAttempts <= 1
  /\ SomeStrategySucceeded => FallbackAttempts = 0
  /\ (rpc \in {"classify", "reverse", "done"} /\ AllStrategiesFailed) => FallbackAttempts = 1
  /\ (Returned /\ rres.status = "DNS_FAILURE") => FallbackAttempts = 1

\* ------------------------------------------------------------------ C21

\* The executor waits for strategy number i + 1 of the chain to return.
InStrategy(i) == tpc = "strategy" /\ tlk.i = i

InFallback == tpc = "fallback"

\* Goroutine k of performReverseLookups waits for LookupAddr to return.
InReverse(k) == k \in 1..Len(tasks) /\ tasks[k].pc = "lookup"

\* C21: every network operation of a request is bounded by a deadline:
\* whether or not the network ever answers, each strategy call, the
\* net.LookupHost fallback and each reverse lookup returns, so none keeps its
\* executor waiting forever.
C21_Bounded ==
  /\ \A i \in 0..(Len(strategyNames) - 1) : []<>~InStrategy(i)
  /\ []<>~InFallback
  /\ \A k \in 1..MaxAddrs : []<>~InReverse(k)

\* ------------------------------------------------------------------ C22

\* The process has ended: main returned, or a goroutine panicked.
ProcessEnded == Exited \/ panicked

\* A step that closes the result queue finds every worker returned; a worker
\* returns only from its receive, with the request queue closed and empty, so
\* with no result in hand and no direct emit under way.
C22_Steps ==
  /\ (outClosed' /\ ~outClosed) => \A w \in Workers : wpc[w] = "done"
  /\ \A w \in Workers :
       (wpc'[w] = "done" /\ wpc[w] # "done") =>
         /\ wpc[w] = "recv"
         /\ wres[w] = NoResult
         /\ inClosed
         /\ inputChan = <<>>

\* C22: the result queue is closed only after every worker has seen the
\* request queue closed and drained and has returned; the process ends only
\* after the output worker has drained the closed result queue and signalled.
C22_Barrier ==
  /\ [][C22_Steps]_vars
  /\ [](outClosed => \A w \in Workers : wpc[w] = "done")
  /\ [](ProcessEnded => (outClosed /\ outputChan = <<>> /\ spc = "done"))

\* ------------------------------------------------------------------ C23

\* Line i of standard output was written on the producer's inline path: by
\* the producer, for a request it resolved itself.
InlineEmission(i) ==
  /\ stdout[i].by = Producer
  /\ WellFormed(input[stdout[i].id])

\* C23: a line is written by a goroutine other than the output worker only on
\* the producer's inline path; every other line on standard output is written
\* by the output worker.
C23_DirectOnlyInline ==
  \A i \in 1..Len(stdout) : stdout[i].by = Sink \/ InlineEmission(i)

\* ------------------------------------------------------------------ C24

Collecting == tpc = "collect"

\* A step of the collection loop.
CollectStep == TCollectReceive \/ TCollectCtxDone \/ TCollectFinish

\* The hostname collected for address ipAddr, if any.
Collected(ipAddr) ==
  {tgot[j].hostname : j \in {j \in 1..Len(tgot) : tgot[j].ip = ipAddr}} \ {""}

\* C24: once ctx is done the collection loop of performReverseLookups waits
\* for nothing: a step of it is always possible, each step ends an iteration,
\* and with the lookup goroutines left to themselves the loop ends; the
\* addresses without a collected hostname come back bare, and the result is
\* built with the status the mismatch was given.
C24_CollectionBounded ==
  /\ []((Collecting /\ tctx) => ENABLED CollectStep)
  /\ [][(Collecting /\ titer' # titer) => (Collecting' /\ titer' = titer + 1
                                            /\ titer' <= Len(tlk.ips))]_vars
  /\ (Collecting /\ tctx) ~> (tpc = "done")
  /\ [][(Collecting /\ ~Collecting') =>
          /\ tpc' = "done"
          /\ tres'.status = tstatus
          /\ tres'.shouldPrint
          /\ Len(tres'.resolvedIPs) = Len(tlk.ips)
          /\ \A i \in 1..Len(tlk.ips) :
               Collected(IPString(tlk.ips[i])) = {}
                 => tres'.resolvedIPs[i] = IPString(tlk.ips[i])]_vars

\* The loop ended on the deadline: one hostname was collected, the second
\* lookup is still under way and its address is returned bare.
C24_Witness ==
  /\ tpc = "done"
  /\ tctx
  /\ Len(tlk.ips) = 2
  /\ Len(tgot) = 1
  /\ tasks[2].pc = "lookup"
  /\ tres.resolvedIPs[1] # IPString(tlk.ips[1])
  /\ tres.resolvedIPs[2] = IPString(tlk.ips[2])

\* ------------------------------------------------------------------ C25

\* A record that is empty or holds white space only.
Blank(raw) == TrimSpace(raw) = ""

\* C25: a blank record is handled as a malformed one: it is never queued for
\* resolution, and once read it has one outcome, made by the producer, with
\* status MALFORMED and the emit flag set.
C25_BlankAsMalformed ==
  /\ \A request \in InFlight : request.id # 0 => ~Blank(input[request.id])
  /\ \A id \in Read : Blank(input[id]) =>
       /\ Len(outcomes[id]) = 1
       /\ outcomes[id][1].by = Producer
       /\ outcomes[id][1].result.status = "MALFORMED"
       /\ outcomes[id][1].result.shouldPrint

\* ------------------------------------------------------------------ C26

\* A goroutine is at a send on the result queue.
Offering == ppc \in {"offerMalformed", "offerResult"} \/ \E w \in Workers : wpc[w] = "send"

\* C26: for every pool size, 0 included, the result queue is closed only
\* after the producer has read all the input and finished its sends and
\* inline emissions; no goroutine is ever at a send on the closed result
\* queue, none panics, and the process does not exit with input unread.
C26_CloseAfterProducer ==
  /\ outClosed => (ppc = "done" /\ pos = Len(input))
  /\ ~(outClosed /\ Offering)
  /\ ~panicked
  /\ Exited => pos = Len(input)

\* ------------------------------------------------------------------ C27

\* Goroutine k of performReverseLookups has its result and is at its send.
Sending(k) == k \in 1..Len(tasks) /\ tasks[k].pc = "send"

Delivered == {k \in 1..Len(tasks) : tasks[k].pc = "done"}

\* C27: a reverse-lookup goroutine never waits at its send: the results
\* channel has room for one result per address and each goroutine sends one
\* result, once, so the send can always proceed and the goroutine ends, also
\* after the collection loop has stopped receiving.
C27_TaskNeverBlocks ==
  /\ [](\A k \in 1..MaxAddrs : Sending(k) => ENABLED TaskSend(k))
  /\ [](Len(tasks) > 0 =>
          /\ Len(tasks) = Len(tlk.ips)
          /\ Len(results) + Len(tgot) = Cardinality(Delivered)
          /\ Len(results) <= ResultsCap(tlk.ips))
  /\ [][\A k \in 1..MaxAddrs :
          (k \in Delivered /\ tpc' # "idle") => (k \in Delivered)']_vars
  /\ \A k \in 1..MaxAddrs : []<>~Sending(k)

\* Both goroutines delivered after the call had left the collection loop,
\* which had received nothing.
C27_Witness ==
  /\ tpc = "returned"
  /\ Len(tasks) = 2
  /\ tgot = <<>>
  /\ Len(results) = 2
  /\ tasks[1].late /\ tasks[2].late
====
